---------------------------- MODULE Spec2Model ----------------------------
(* WebNode script generator (webnode.py): favicon resolution, artifact     *)
(* naming, launcher rendering and the on_generate orchestrator.            *)
(* Text is modelled as sequences of one-character strings, so that         *)
(* strip, sanitize, startswith, urlparse, repr and the escaping are        *)
(* computed character by character as the code computes them.              *)
EXTENDS Integers, Sequences, FiniteSets, TLC

VARIABLES fs, status, last, nreq, args, ret

vars == <<fs, status, last, nreq, args, ret>>

-----------------------------------------------------------------------------
(* Characters and generic string helpers                                   *)

Lowercase ==
  {"a","b","c","d","e","f","g","h","i","j","k","l","m",
   "n","o","p","q","r","s","t","u","v","w","x","y","z"}

Uppercase ==
  {"A","B","C","D","E","F","G","H","I","J","K","L","M",
   "N","O","P","Q","R","S","T","U","V","W","X","Y","Z"}

Digits == {"0","1","2","3","4","5","6","7","8","9"}

UpperSeq ==
  <<"A","B","C","D","E","F","G","H","I","J","K","L","M",
    "N","O","P","Q","R","S","T","U","V","W","X","Y","Z">>

LowerSeq ==
  <<"a","b","c","d","e","f","g","h","i","j","k","l","m",
    "n","o","p","q","r","s","t","u","v","w","x","y","z">>

LowerChar(c) ==
  IF c \in Uppercase
    THEN LowerSeq[CHOOSE i \in 1..26 : UpperSeq[i] = c]
    ELSE c

Lower(s) == [i \in 1..Len(s) |-> LowerChar(s[i])]

StartsWith(s, p) == Len(s) >= Len(p) /\ SubSeq(s, 1, Len(p)) = p

Contains(s, p) ==
  \E i \in 1..(Len(s) - Len(p) + 1) : SubSeq(s, i, i + Len(p) - 1) = p

Drop(s, n) == SubSeq(s, n + 1, Len(s))

\* str.find(c): first index of c in s, 0 when absent (Python's -1)
Find(s, c) ==
  IF \E i \in 1..Len(s) : s[i] = c
    THEN CHOOSE i \in 1..Len(s) : s[i] = c /\ \A j \in 1..(i - 1) : s[j] # c
    ELSE 0

Whitespace == {" "}

\* str.strip()
Strip(s) ==
  LET keep == {i \in 1..Len(s) : s[i] \notin Whitespace}
  IN IF keep = {} THEN <<>>
     ELSE LET lo == CHOOSE i \in keep : \A j \in keep : i <= j
              hi == CHOOSE i \in keep : \A j \in keep : j <= i
          IN SubSeq(s, lo, hi)

\* character-level spellings of the string constants of the source
sHttp == <<"h","t","t","p">>
sSchemeSep == <<":","/","/">>
sFavicon == <<"/","f","a","v","i","c","o","n",".","i","c","o">>
sIcon == <<"i","c","o","n">>
sDoc == <<"d","o","c">>
sDocuments == <<"D","o","c","u","m","e","n","t","s">>
sWebNodeApps == <<"W","e","b","N","o","d","e"," ","A","p","p","s">>
sApp == <<"a","p","p">>
sWebnodeDot == <<"w","e","b","n","o","d","e",".">>
sDotPy == <<".","p","y">>
sDotIco == <<".","i","c","o">>

-----------------------------------------------------------------------------
(* Favicon extraction                                                      *)

SchemeChars == Lowercase \cup Uppercase \cup Digits \cup {"+", "-", "."}

UrlDelims == {"/", "?", "#"}

\* urllib.parse.urlparse as used on lines 193, 200 and 204: scheme and
\* netloc, or ValueError for a netloc with an unbalanced bracket
urlparse(url) ==
  LET i == Find(url, ":")
      hasScheme == /\ i > 1
                   /\ url[1] \in Lowercase \cup Uppercase
                   /\ \A j \in 1..(i - 1) : url[j] \in SchemeChars
      scheme == IF hasScheme THEN Lower(SubSeq(url, 1, i - 1)) ELSE <<>>
      rest == IF hasScheme THEN Drop(url, i) ELSE url
      hasNetloc == StartsWith(rest, <<"/","/">>)
      after == Drop(rest, 2)
      stops == {j \in 1..Len(after) : after[j] \in UrlDelims}
      stop == IF stops = {} THEN Len(after) + 1
              ELSE CHOOSE j \in stops : \A k \in stops : j <= k
      netloc == IF hasNetloc THEN SubSeq(after, 1, stop - 1) ELSE <<>>
      open == \E j \in 1..Len(netloc) : netloc[j] = "["
      close == \E j \in 1..Len(netloc) : netloc[j] = "]"
  IN IF hasNetloc /\ (open # close)
       THEN [exc |-> "ValueError", scheme |-> <<>>, netloc |-> <<>>]
       ELSE [exc |-> "none", scheme |-> scheme, netloc |-> netloc]

\* lines 200-201 and 204-205: f"{parsed.scheme}://{parsed.netloc}/favicon.ico"
FaviconFallback(url) ==
  LET parsed == urlparse(url)
  IN IF parsed.exc # "none"
       THEN [exc |-> parsed.exc, value |-> <<>>]
       ELSE [exc |-> "none",
             value |-> parsed.scheme \o sSchemeSep \o parsed.netloc \o sFavicon]

\* line 187: rel=lambda x: x and "icon" in x.lower()
IsIconLink(link) == link.hasRel /\ Contains(Lower(link.rel), sIcon)

\* soup.find: index of the first matching link element, 0 when none
FirstIconLink(links) ==
  IF \E i \in 1..Len(links) : IsIconLink(links[i])
    THEN CHOOSE i \in 1..Len(links) :
           IsIconLink(links[i]) /\ \A j \in 1..(i - 1) : ~IsIconLink(links[j])
    ELSE 0

\* line 190
HrefIsHttp(href) == StartsWith(href, sHttp)

\* lines 183-205. page is what requests.get and BeautifulSoup give:
\* kind "error" (the fetch raises), "unparsable" (the parser raises) or
\* "html" with the document's link elements in document order.
get_favicon_url(url, page) ==
  IF page.kind # "html"
    THEN FaviconFallback(url)
    ELSE
      LET k == FirstIconLink(page.links)
      IN IF k # 0 /\ page.links[k].hasHref /\ page.links[k].href # <<>>
           THEN LET href == page.links[k].href
                IN IF HrefIsHttp(href)
                     THEN [exc |-> "none", value |-> href]
                     ELSE LET parsed == urlparse(url)
                          IN IF parsed.exc # "none"
                               \* raised inside try: the handler calls
                               \* urlparse again, which raises again
                               THEN FaviconFallback(url)
                               ELSE LET base == parsed.scheme \o sSchemeSep
                                                  \o parsed.netloc
                                    IN IF StartsWith(href, <<"/">>)
                                         THEN [exc |-> "none", value |-> base \o href]
                                         ELSE [exc |-> "none",
                                               value |-> base \o <<"/">> \o href]
           ELSE FaviconFallback(url)

-----------------------------------------------------------------------------
(* Script generation: the literals filled into SCRIPT_TEMPLATE             *)

DQ == "\""
SQ == "'"
BS == "\\"
NL == "\n"

\* the concatenation of pieces[lo..hi]
RECURSIVE Join(_, _, _)
Join(pieces, lo, hi) ==
  IF lo > hi THEN <<>>
  ELSE IF lo = hi THEN pieces[lo]
  ELSE LET mid == (lo + hi) \div 2
       IN Join(pieces, lo, mid) \o Join(pieces, mid + 1, hi)

\* str.replace(c, by) for a one-character pattern
Replace(s, c, by) ==
  IF \A i \in 1..Len(s) : s[i] # c THEN s
  ELSE Join([i \in 1..Len(s) |-> IF s[i] = c THEN by ELSE <<s[i]>>], 1, Len(s))

\* line 269: title.replace('"', '\\"')
EscapeTitle(title) == Replace(title, DQ, <<BS, DQ>>)

\* line 271: icon_path.replace("\\", "\\\\").replace('"', '\\"')
EscapeIconPath(path) == Replace(Replace(path, BS, <<BS, BS>>), DQ, <<BS, DQ>>)

\* line 270: repr() of a str of printable characters: single quotes unless
\* the text holds a single quote and no double quote; the backslash and
\* the chosen quote are backslash-escaped
PyRepr(s) ==
  LET hasSQ == \E i \in 1..Len(s) : s[i] = SQ
      hasDQ == \E i \in 1..Len(s) : s[i] = DQ
      q == IF hasSQ /\ ~hasDQ THEN DQ ELSE SQ
  IN <<q>> \o Replace(Replace(s, BS, <<BS, BS>>), q, <<BS, q>>) \o <<q>>

\* lines 231, 233 and 237 of the template with the values of lines 268-272
\* filled in: the three literals of the generated script, as source text
Render(title, url, icon_path) ==
  [title |-> <<DQ>> \o EscapeTitle(title) \o <<DQ>>,
   icon_path |-> <<DQ>> \o EscapeIconPath(icon_path) \o <<DQ>>,
   url |-> PyRepr(Strip(url))]

\* The body of a string literal read by the interpreter that runs the
\* generated script: q is the opening quote, s the text after it. Gives
\* the denoted text up to the closing quote and what follows that quote,
\* or ok = FALSE for a literal that never closes.
RECURSIVE ReadBody(_, _, _)
ReadBody(q, s, acc) ==
  IF s = <<>> THEN [ok |-> FALSE, value |-> acc, rest |-> <<>>]
  ELSE IF Head(s) = q THEN [ok |-> TRUE, value |-> acc, rest |-> Tail(s)]
  ELSE IF Head(s) = BS
    THEN IF Len(s) < 2 THEN [ok |-> FALSE, value |-> acc, rest |-> <<>>]
         ELSE IF s[2] \in {BS, SQ, DQ}
           THEN ReadBody(q, Drop(s, 2), acc \o <<s[2]>>)
         ELSE IF s[2] = "n"
           THEN ReadBody(q, Drop(s, 2), acc \o <<NL>>)
         ELSE ReadBody(q, Drop(s, 2), acc \o <<BS, s[2]>>)
  ELSE ReadBody(q, Tail(s), acc \o <<Head(s)>>)

\* A whole literal as it stands in the script: well formed when it opens
\* with a quote, closes, and nothing follows the closing quote
ReadLiteral(lit) ==
  IF lit = <<>> \/ Head(lit) \notin {SQ, DQ}
    THEN [ok |-> FALSE, value |-> <<>>]
    ELSE LET r == ReadBody(Head(lit), Tail(lit), <<>>)
         IN [ok |-> r.ok /\ r.rest = <<>>, value |-> r.value]

-----------------------------------------------------------------------------
(* Folder handling. A path is a sequence of segments below the user's      *)
(* home directory; fs.dirs holds the resolved paths of the directories     *)
(* that exist, fs.files maps the resolved path of each file to its content *)

\* what the operating system makes of "." and ".." in a joined path
RECURSIVE Resolve(_, _)
Resolve(path, acc) ==
  IF path = <<>> THEN acc
  ELSE IF Head(path) = <<".">> THEN Resolve(Tail(path), acc)
  ELSE IF Head(path) = <<".", ".">>
    THEN Resolve(Tail(path), IF acc = <<>> THEN acc ELSE SubSeq(acc, 1, Len(acc) - 1))
  ELSE Resolve(Tail(path), Append(acc, Head(path)))

Norm(path) == Resolve(path, <<>>)

\* os.makedirs(path, exist_ok=True): the directory and its missing parents
MakeDirs(dirs, path) ==
  dirs \cup {Norm(SubSeq(path, 1, k)) : k \in 0..Len(path)}

\* the path as the text that os.path.join gives
RECURSIVE PathStr(_)
PathStr(path) ==
  IF path = <<>> THEN <<"~">>
  ELSE PathStr(SubSeq(path, 1, Len(path) - 1)) \o <<"/">> \o path[Len(path)]

\* lines 142-161. os.listdir gives the names in an arbitrary order that is
\* fixed for a given directory, so among equally short matches one fixed
\* name comes first; exc = "OSError" when os.listdir raises, found = FALSE
\* for the None result
get_documents_folder(dirs, fault) ==
  LET doc == <<sDocuments>>
      names == {d[1] : d \in {e \in dirs : Len(e) = 1}}
      candidates == {n \in names : Contains(Lower(n), sDoc)}
      first == CHOOSE n \in candidates : \A m \in candidates : Len(n) <= Len(m)
  IN IF doc \in dirs
       THEN [exc |-> "none", found |-> TRUE, path |-> doc]
     ELSE IF fault = "listdir"
       THEN [exc |-> "OSError", found |-> FALSE, path |-> <<>>]
     ELSE IF candidates # {}
       THEN [exc |-> "none", found |-> TRUE, path |-> <<first>>]
     ELSE [exc |-> "none", found |-> FALSE, path |-> <<>>]

\* lines 163-170, for one result of get_documents_folder
get_webnode_apps_folder(dirs, doc_folder, fault) ==
  IF doc_folder.exc # "none"
    THEN [exc |-> doc_folder.exc, found |-> FALSE, path |-> <<>>, dirs |-> dirs]
  ELSE IF ~doc_folder.found
    THEN [exc |-> "none", found |-> FALSE, path |-> <<>>, dirs |-> dirs]
  ELSE LET wn_folder == Append(doc_folder.path, sWebNodeApps)
       IN IF wn_folder \in dirs
            THEN [exc |-> "none", found |-> TRUE, path |-> wn_folder, dirs |-> dirs]
          ELSE IF fault = "mkroot"
            THEN [exc |-> "OSError", found |-> FALSE, path |-> <<>>, dirs |-> dirs]
          ELSE [exc |-> "none", found |-> TRUE, path |-> wn_folder,
                dirs |-> MakeDirs(dirs, wn_folder)]

SafeChars == Lowercase \cup Uppercase \cup Digits \cup {".", "_", "-"}

\* lines 246-248: re.sub(r'[^a-zA-Z0-9._-]', '', s)
sanitize_filename(s) == SelectSeq(s, LAMBDA c : c \in SafeChars)

\* validate_url that only asks for a non-empty text
validate_url_nonempty(url) == Strip(url) # <<>>

\* lines 250-252: re.match(r'^https?://', url.strip())
validate_url(url) ==
  LET u == Strip(url)
  IN \/ StartsWith(u, sHttp \o sSchemeSep)
     \/ StartsWith(u, sHttp \o <<"s">> \o sSchemeSep)

\* line 175: os.path.join(base_folder, "app", f"{safe_company}.{safe_name}")
AppFolderPath(base_folder, company, name) ==
  base_folder \o <<sApp, sanitize_filename(company) \o <<".">> \o sanitize_filename(name)>>

\* line 176: os.makedirs(app_folder, exist_ok=True)
AppFolderMakeDirs(dirs, app_folder) == MakeDirs(dirs, app_folder)

\* get_app_folder with os.makedirs(app_folder), exist_ok left out
get_app_folder_exclusive(dirs, base_folder, company, name, fault) ==
  LET app_folder == AppFolderPath(base_folder, company, name)
  IN IF Norm(app_folder) \in dirs
       THEN [exc |-> "FileExistsError", path |-> app_folder, dirs |-> dirs]
     ELSE IF fault = "mkapp"
       THEN [exc |-> "OSError", path |-> app_folder, dirs |-> dirs]
     ELSE [exc |-> "none", path |-> app_folder,
           dirs |-> AppFolderMakeDirs(dirs, app_folder)]

\* lines 172-177; the fault is a refused creation of a missing directory
get_app_folder(dirs, base_folder, company, name, fault) ==
  LET app_folder == AppFolderPath(base_folder, company, name)
  IN IF fault = "mkapp" /\ Norm(app_folder) \notin dirs
       THEN [exc |-> "OSError", path |-> app_folder, dirs |-> dirs]
       ELSE [exc |-> "none", path |-> app_folder,
             dirs |-> AppFolderMakeDirs(dirs, app_folder)]

\* lines 258-259
ScriptFilename(company, name) ==
  sWebnodeDot \o sanitize_filename(company) \o <<".">> \o sanitize_filename(name) \o sDotPy

IconFilename(company, name) ==
  sWebnodeDot \o sanitize_filename(company) \o <<".">> \o sanitize_filename(name) \o sDotIco

\* open(path, "w") and write: the file holds exactly the new content
WriteFile(files, path, content) ==
  [p \in DOMAIN files \cup {Norm(path)} |->
     IF p = Norm(path) THEN content ELSE files[p]]

\* download_favicon without its try/except: a failed fetch raises
download_favicon_unguarded(files, save_path, resp, fault) ==
  IF resp.kind = "error"
    THEN [exc |-> "ConnectionError", ret |-> FALSE, files |-> files]
  ELSE IF resp.status = 200 /\ resp.content # 0 /\ fault = "iconwrite"
    THEN [exc |-> "OSError", ret |-> FALSE, files |-> files]
  ELSE IF resp.status = 200 /\ resp.content # 0
    THEN [exc |-> "none", ret |-> TRUE,
          files |-> [p \in DOMAIN files \cup {Norm(save_path)} |->
                       IF p = Norm(save_path) THEN [bytes |-> resp.content]
                       ELSE files[p]]]
  ELSE [exc |-> "none", ret |-> FALSE, files |-> files]

\* lines 207-216. resp is what requests.get gives for the icon: kind
\* "error" (it raises) or "response" with a status and the body's bytes
\* (0 for an empty body); the fault "iconwrite" makes open() raise.
download_favicon(files, save_path, resp, fault) ==
  IF resp.kind = "response" /\ resp.status = 200 /\ resp.content # 0
       /\ fault # "iconwrite"
    THEN [exc |-> "none", ret |-> TRUE,
          files |-> WriteFile(files, save_path, [bytes |-> resp.content])]
    ELSE [exc |-> "none", ret |-> FALSE, files |-> files]

\* lines 263-275, once the app folder and the favicon URL are known: the
\* icon download, the rendering and the write of the script. af is the
\* result of get_app_folder and favicon that of get_favicon_url; an
\* exception of either ends generate_script where it is raised.
WriteArtifacts(fsys, af, company, name, title, url, favicon, resp, fault) ==
  LET script_path == Append(af.path, ScriptFilename(company, name))
      icon_path == Append(af.path, IconFilename(company, name))
      dl == download_favicon(fsys.files, icon_path, resp, fault)
      none == [exc |-> "none", script_path |-> script_path, favicon |-> <<>>,
               fetched |-> {}, icon_ret |-> "notcalled", fs |-> fsys]
  IN IF af.exc # "none"
       THEN [none EXCEPT !.exc = af.exc]
     ELSE IF favicon.exc # "none"
       THEN [none EXCEPT !.exc = favicon.exc, !.fetched = {"page"},
                         !.fs = [dirs |-> af.dirs, files |-> fsys.files]]
     ELSE IF dl.exc # "none"
       THEN [none EXCEPT !.exc = dl.exc, !.fetched = {"page", "icon"},
                         !.favicon = favicon.value,
                         !.fs = [dirs |-> af.dirs, files |-> fsys.files]]
     ELSE IF fault = "write"
       THEN [none EXCEPT !.exc = "OSError", !.fetched = {"page", "icon"},
                         !.favicon = favicon.value,
                         !.icon_ret = IF dl.ret THEN "true" ELSE "false",
                         !.fs = [dirs |-> af.dirs, files |-> dl.files]]
     ELSE [none EXCEPT !.fetched = {"page", "icon"},
                       !.favicon = favicon.value,
                       !.icon_ret = IF dl.ret THEN "true" ELSE "false",
                       !.fs = [dirs |-> af.dirs,
                               files |-> WriteFile(dl.files, script_path,
                                                   Render(title, url, PathStr(icon_path)))]]

\* lines 254-275
generate_script(fsys, company, name, title, url, folder, page, resp, fault) ==
  WriteArtifacts(fsys, get_app_folder(fsys.dirs, folder, company, name, fault),
                 company, name, title, url, get_favicon_url(url, page), resp, fault)

-----------------------------------------------------------------------------
(* The generate request                                                    *)

MaxRequests == 2
NumIconBytes == 2

sHttpsEP == <<"h","t","t","p","s",":","/","/","e","/","p">>
sHttpBracket == <<"h","t","t","p",":","/","/","[">>

Companies == {<<" ">>, <<"!">>, <<"a">>}
Names == {<<>>, <<"!">>, <<".">>}
Titles == {<<>>, <<"t">>}
Urls == {<<"e">>, sHttpsEP, sHttpBracket}

Requests == [company : Companies, name : Names, title : Titles, url : Urls]

NoPage == [kind |-> "none", links |-> <<>>]
NoResp == [kind |-> "none", status |-> 0, content |-> 0]

Pages ==
  {[kind |-> "html",
    links |-> <<[hasRel |-> TRUE, rel |-> sIcon, hasHref |-> TRUE, href |-> <<"/","f">>]>>]}

IconResponses ==
  {[kind |-> "error", status |-> 0, content |-> 0],
   [kind |-> "response", status |-> 500, content |-> 1],
   [kind |-> "response", status |-> 200, content |-> 0]}
  \cup {[kind |-> "response", status |-> 200, content |-> b] : b \in 1..NumIconBytes}

Faults == {"none", "listdir", "mkroot", "mkapp", "iconwrite", "write"}

sMusic == <<"M","u","s","i","c">>
sMyDocs == <<"m","y","d","o","c","s">>
sDocs == <<"D","o","c","s">>

\* the home directory the program starts in
HomeConfigs ==
  {{<<>>, <<sDocuments>>},
   {<<>>, <<sMusic>>, <<sMyDocs>>, <<sDocs>>},
   {<<>>, <<sMusic>>}}

\* the texts of the status label
Status(kind, arg) == [kind |-> kind, arg |-> arg]

NoRequest ==
  [raw |-> [company |-> <<>>, name |-> <<>>, title |-> <<>>, url |-> <<>>],
   page |-> NoPage, resp |-> NoResp, fault |-> "none",
   outcome |-> "none", fetched |-> {}, icon_ret |-> "notcalled",
   base |-> <<>>, app_folder |-> <<>>, repeated |-> FALSE]

Init ==
  /\ fs \in [dirs : HomeConfigs, files : {<<>>}]
  /\ status = Status("empty", <<>>)
  /\ last = NoRequest
  /\ nreq = 0
  /\ args = <<>>
  /\ ret = <<>>

\* lines 432-436: the try block around generate_script, as it leaves the
\* label, the disk and the record of the request
Generate(env, folder, company, name, title, url, page, resp, fault) ==
  \E g \in {generate_script([fs EXCEPT !.dirs = folder.dirs],
                            company, name, title, url,
                            folder.path, page, resp, fault)} :
    /\ fs' = g.fs
    /\ status' = IF g.exc = "none"
                   THEN Status("generated", g.script_path[Len(g.script_path)])
                   ELSE Status("error", <<g.exc>>)
    /\ last' = [env EXCEPT !.page = page, !.resp = resp,
                           !.outcome = IF g.exc = "none" THEN "generated" ELSE "error",
                           !.fetched = g.fetched,
                           !.icon_ret = g.icon_ret,
                           !.base = folder.path,
                           !.app_folder =
                             SubSeq(g.script_path, 1, Len(g.script_path) - 1),
                           \* the request before this one succeeded and this
                           \* one has the same texts and meets the same answers
                           !.repeated = /\ last.outcome = "generated"
                                        /\ last.raw = env.raw
                                        /\ page \in {NoPage, last.page}
                                        /\ resp \in {NoResp, last.resp}
                                        /\ last.fault = fault]

\* line 210
RespOk(resp) == resp.kind = "response" /\ resp.status = 200 /\ resp.content # 0

\* lines 413-436, with every call the handler makes. raw holds the texts of
\* the four input fields; page, resp and fault are what the network and the
\* disk answer during this request. The page is drawn when the request
\* reaches the page fetch and the icon response when it reaches the icon
\* fetch; a fault is drawn only where the request runs into it, a fault it
\* never meets being the same run as the one without it.
on_generate ==
  /\ nreq < MaxRequests
  /\ nreq' = nreq + 1
  /\ UNCHANGED <<args, ret>>
  /\ \E raw \in Requests :
       LET company == Strip(raw.company)
           name == Strip(raw.name)
           title == Strip(raw.title)
           url == Strip(raw.url)
           req == [NoRequest EXCEPT !.raw = raw]
       IN IF company = <<>> \/ name = <<>> \/ title = <<>> \/ url = <<>>
            THEN /\ status' = Status("required", <<>>)
                 /\ last' = [req EXCEPT !.outcome = "validation"]
                 /\ fs' = fs
          ELSE IF ~validate_url(url)
            THEN /\ status' = Status("badurl", <<>>)
                 /\ last' = [req EXCEPT !.outcome = "validation"]
                 /\ fs' = fs
          ELSE \E fault \in Faults :
            \E folder \in {get_webnode_apps_folder(
                              fs.dirs, get_documents_folder(fs.dirs, fault), fault)},
               env \in {[req EXCEPT !.fault = fault]} :
               IF folder.exc # "none"
                 \* raised outside the try block of line 432
                 THEN /\ status' = status
                      /\ last' = [env EXCEPT !.outcome = "escaped"]
                      /\ fs' = [fs EXCEPT !.dirs = folder.dirs]
               ELSE IF ~folder.found
                 THEN /\ fault = "none"
                      /\ status' = Status("nodocs", <<>>)
                      /\ last' = [env EXCEPT !.outcome = "nodocs"]
                      /\ fs' = fs
               ELSE IF get_app_folder(folder.dirs, folder.path,
                                      company, name, fault).exc # "none"
                 THEN Generate(env, folder, company, name, title, url,
                               NoPage, NoResp, fault)
               ELSE
                 /\ fault \in {"none", "iconwrite", "write"}
                 /\ \E page \in Pages :
                      IF get_favicon_url(url, page).exc # "none"
                        THEN /\ fault = "none"
                             /\ Generate(env, folder, company, name, title, url,
                                         page, NoResp, fault)
                        ELSE \E resp \in IconResponses :
                               /\ fault = "iconwrite" => RespOk(resp)
                               /\ Generate(env, folder, company, name, title, url,
                                           page, resp, fault)

Next == on_generate

Spec == Init /\ [][Next]_vars

-----------------------------------------------------------------------------
(* get_favicon_url on its own: page URLs and fetched documents             *)

Link(rel, href) == [hasRel |-> TRUE, rel |-> rel, hasHref |-> TRUE, href |-> href]
NoHref(rel) == [hasRel |-> TRUE, rel |-> rel, hasHref |-> FALSE, href |-> <<>>]
NoRel(href) == [hasRel |-> FALSE, rel |-> <<>>, hasHref |-> TRUE, href |-> href]

sHttpE == <<"h","t","t","p",":","/","/","e">>
sFtpE == <<"f","t","p",":","/","/","e","/","p">>

FaviconUrls == {sHttpsEP, sHttpE, sHttpBracket, sFtpE}

FaviconDocuments ==
  {<<>>,
   <<Link(<<"s","t","y","l","e","s","h","e","e","t">>, <<"/","s">>)>>,
   <<Link(sIcon, <<"/","f">>)>>,
   <<Link(<<"s","h","o","r","t","c","u","t"," ","i","c","o","n">>, <<"f">>)>>,
   <<Link(<<"I","C","O","N">>, <<"h","t","t","p","s",":","/","/","c","/","f">>)>>,
   <<Link(sIcon, <<"h","t","t","p","f">>)>>,
   <<Link(sIcon, <<"/","/","c","/","f">>)>>,
   <<Link(sIcon, <<"f","t","p",":","/","/","c","/","f">>)>>,
   <<Link(sIcon, <<"d","a","t","a",":","x">>)>>,
   <<NoHref(sIcon)>>,
   <<Link(sIcon, <<>>)>>,
   <<Link(<<"s","t","y","l","e","s","h","e","e","t">>, <<"/","s">>), Link(sIcon, <<"/","f">>)>>,
   <<NoHref(sIcon), Link(sIcon, <<"/","f">>)>>,
   <<NoRel(<<"/","x">>), Link(<<"a","p","p","l","e","-","t","o","u","c","h","-","i","c","o","n">>, <<"f">>)>>}

FaviconPages ==
  {[kind |-> "error", links |-> <<>>], [kind |-> "unparsable", links |-> <<>>]}
  \cup {[kind |-> "html", links |-> d] : d \in FaviconDocuments}

Pending == [exc |-> "pending", value |-> <<>>]

Idle ==
  /\ fs = [dirs |-> {<<>>}, files |-> <<>>]
  /\ status = Status("empty", <<>>)
  /\ last = NoRequest
  /\ nreq = 0

InitFavicon ==
  /\ Idle
  /\ args \in [url : FaviconUrls, page : FaviconPages]
  /\ ret = Pending

ResolveFavicon ==
  /\ ret = Pending
  /\ ret' = get_favicon_url(args.url, args.page)
  /\ UNCHANGED <<fs, status, last, nreq, args>>

NextFavicon == ResolveFavicon

SpecFavicon == InitFavicon /\ [][NextFavicon]_vars

-----------------------------------------------------------------------------
(* The rendering of lines 268-272 on its own: titles and URLs              *)

MaxTitleLen == 2
MaxUrlLen == 2

TitleChars == {"t", "n", DQ, BS}
UrlChars == {"u", " ", SQ, DQ, BS}

SeqsUpTo(A, n) == UNION {[1..k -> A] : k \in 0..n}

sIconPathText ==
  PathStr(<<sDocuments, sWebNodeApps, sApp, <<"a",".","a">>, <<"w","e","b","n","o","d","e",".","a",".","a",".","i","c","o">>>>)

NotRendered == [title |-> <<>>, icon_path |-> <<>>, url |-> <<>>]

InitRender ==
  /\ Idle
  /\ args \in [title : SeqsUpTo(TitleChars, MaxTitleLen),
               url : SeqsUpTo(UrlChars, MaxUrlLen)]
  /\ ret = NotRendered

RenderScript ==
  /\ ret = NotRendered
  /\ ret' = Render(args.title, args.url, sIconPathText)
  /\ UNCHANGED <<fs, status, last, nreq, args>>

NextRender == RenderScript

SpecRender == InitRender /\ [][NextRender]_vars

-----------------------------------------------------------------------------
(* Properties                                                              *)

\* ^https?:// as the specification words it
MatchesHttpPrefix(u) ==
  \/ StartsWith(u, <<"h","t","t","p",":","/","/">>)
  \/ StartsWith(u, <<"h","t","t","p","s",":","/","/">>)

ValidIdentity(raw) ==
  /\ Strip(raw.company) # <<>>
  /\ Strip(raw.name) # <<>>
  /\ Strip(raw.title) # <<>>
  /\ Strip(raw.url) # <<>>
  /\ MatchesHttpPrefix(Strip(raw.url))

RespFails(resp) ==
  \/ resp.kind = "error"
  \/ resp.kind = "response" /\ (resp.status # 200 \/ resp.content = 0)

\* the names the specification gives the artifacts of a request
ExpectedFolderName(raw) ==
  sanitize_filename(Strip(raw.company)) \o <<".">> \o sanitize_filename(Strip(raw.name))

ExpectedScriptName(raw) ==
  <<"w","e","b","n","o","d","e",".">> \o ExpectedFolderName(raw) \o <<".","p","y">>

ExpectedIconName(raw) ==
  <<"w","e","b","n","o","d","e",".">> \o ExpectedFolderName(raw) \o <<".","i","c","o">>

ExpectedFolder(rec) == rec.base \o <<sApp, ExpectedFolderName(rec.raw)>>

\* C1: a generate request with an empty field (after trimming) or a URL
\* without the http:// or https:// prefix ends with a validation message,
\* changes no directory and no file, and fetches nothing.
C1_InvalidRequestLeavesDiskUntouched ==
  [][(nreq' = nreq + 1 /\ ~ValidIdentity(last'.raw))
       => /\ last'.outcome = "validation"
          /\ status'.kind \in {"required", "badurl"}
          /\ fs' = fs
          /\ last'.fetched = {}]_vars

C1_Witness ==
  /\ nreq = 2
  /\ last.outcome = "validation"
  /\ Strip(last.raw.title) = <<>>
  /\ DOMAIN fs.files # {}

\* C2: when the icon download of a request fails (the fetch raises, the
\* status is not 200, or the body is empty) and the script can be written,
\* download_favicon returns False without raising, the launcher script is
\* written at base/app/<company>.<name>/webnode.<company>.<name>.py and the
\* request reports that script.
C2_ScriptWrittenWhenIconFails ==
  ("icon" \in last.fetched /\ RespFails(last.resp) /\ last.fault # "write")
    => /\ last.icon_ret = "false"
       /\ last.outcome = "generated"
       /\ status = Status("generated", ExpectedScriptName(last.raw))
       /\ LET script_path == Append(ExpectedFolder(last), ExpectedScriptName(last.raw))
              icon_path == Append(ExpectedFolder(last), ExpectedIconName(last.raw))
          IN /\ Norm(script_path) \in DOMAIN fs.files
             /\ fs.files[Norm(script_path)] =
                  Render(Strip(last.raw.title), Strip(last.raw.url), PathStr(icon_path))

C2_Witness ==
  /\ "icon" \in last.fetched
  /\ last.resp.kind = "response"
  /\ last.resp.status = 500
  /\ last.icon_ret = "false"
  /\ last.outcome = "generated"

\* C3: a request that repeats the successful request before it (the same
\* four texts, the same answers from the network and the disk) succeeds
\* too and leaves the directories and files exactly as the first left them.
C3_RepeatedGenerateChangesNothing ==
  [][(nreq' = nreq + 1 /\ last'.repeated)
       => /\ last'.outcome = "generated"
          /\ status' = status
          /\ fs' = fs]_vars

C3_Witness ==
  /\ last.repeated
  /\ last.outcome = "generated"
  /\ last.icon_ret = "true"
  /\ Cardinality(DOMAIN fs.files) = 2

\* C4: for a page URL with scheme http or https, whatever the fetched
\* document holds, the string get_favicon_url returns matches ^https?://.
C4_FaviconUrlIsHttp ==
  (ret # Pending /\ ret.exc = "none" /\ MatchesHttpPrefix(args.url))
    => MatchesHttpPrefix(ret.value)

\* an href that starts with a URL scheme: a letter, then letters, digits,
\* "+", "-" or ".", then ":"
HasUrlScheme(href) ==
  LET i == Find(href, ":")
  IN /\ i > 1
     /\ href[1] \in Lowercase \cup Uppercase
     /\ \A j \in 1..(i - 1) : href[j] \in Lowercase \cup Uppercase \cup Digits \cup {"+", "-", "."}

\* scheme://host of a page URL, read off its text
OriginOf(url) ==
  LET i == Find(url, ":")
      after == Drop(url, i + 2)
      j == Find(after, "/")
  IN SubSeq(url, 1, i + 2) \o (IF j = 0 THEN after ELSE SubSeq(after, 1, j - 1))

HasUsableIconLink(page) ==
  /\ page.kind = "html"
  /\ FirstIconLink(page.links) # 0
  /\ page.links[FirstIconLink(page.links)].hasHref
  /\ page.links[FirstIconLink(page.links)].href # <<>>

\* C5: when the first icon link has an href, get_favicon_url returns the
\* href unchanged exactly when the href starts with a URL scheme, and
\* otherwise returns origin + href (href starting with "/") or
\* origin + "/" + href.
C5_AbsoluteHrefPassthrough ==
  (ret # Pending /\ ret.exc = "none" /\ HasUsableIconLink(args.page))
    => LET href == args.page.links[FirstIconLink(args.page.links)].href
       IN IF HasUrlScheme(href)
            THEN ret.value = href
            ELSE /\ ret.value # href
                 /\ ret.value = IF StartsWith(href, <<"/">>)
                                  THEN OriginOf(args.url) \o href
                                  ELSE OriginOf(args.url) \o <<"/">> \o href

\* C6: get_favicon_url never fails: it raises nothing, and when the fetch
\* raises, the document cannot be parsed, no link has a rel containing
\* "icon" or the first such link has no href, it returns
\* scheme://host/favicon.ico of the page URL.
C6_FaviconNeverFails ==
  ret # Pending
    => /\ ret.exc = "none"
       /\ ~HasUsableIconLink(args.page)
            => ret.value = OriginOf(args.url) \o <<"/","f","a","v","i","c","o","n",".","i","c","o">>

\* C7: every request returns normally with its outcome on the status
\* label; no exception escapes on_generate.
C7_EveryFailureReported ==
  nreq > 0
    => /\ last.outcome \in {"generated", "validation", "nodocs", "error"}
       /\ last.outcome = "validation" => status.kind \in {"required", "badurl"}
       /\ last.outcome = "nodocs" => status.kind = "nodocs"
       /\ last.outcome = "error" => status.kind = "error"

\* C8: after a successful generate the icon file of that identity is
\* absent if that run's icon download failed and otherwise holds the bytes
\* fetched in that run.
C8_IconIsFromThisRun ==
  last.outcome = "generated"
    => LET icon_path == Norm(Append(last.app_folder, ExpectedIconName(last.raw)))
       IN IF last.icon_ret = "true"
            THEN /\ icon_path \in DOMAIN fs.files
                 /\ fs.files[icon_path] = [bytes |-> last.resp.content]
            ELSE icon_path \notin DOMAIN fs.files

\* C9: the title literal of the rendered script, read back as a string
\* literal, denotes the title, and the url literal denotes the trimmed url.
C9_RenderRoundTrips ==
  ret # NotRendered
    => /\ ReadLiteral(ret.title) = [ok |-> TRUE, value |-> args.title]
       /\ ReadLiteral(ret.url) = [ok |-> TRUE, value |-> Strip(args.url)]

\* C10: the app folder of a successful generate is the direct child
\* {sanitize(company)}.{sanitize(name)} of base/app, and the script is
\* written inside it.
C10_AppFolderIsChildOfApp ==
  last.outcome = "generated"
    => LET parent == Append(last.base, sApp)
           folder == Norm(last.app_folder)
       IN /\ Len(folder) = Len(parent) + 1
          /\ SubSeq(folder, 1, Len(parent)) = parent
          /\ folder[Len(folder)] = ExpectedFolderName(last.raw)
          /\ Append(folder, ExpectedScriptName(last.raw)) \in DOMAIN fs.files

=============================================================================
